---- MODULE Spec2Model ----
(***************************************************************************)
(* Remote-laboratory stack: the pulse-train correction routine of the      *)
(* lab-manager, the collector's bit-vector encoding, the DAO tables        *)
(* (plant_config, ground_truth_patterns, dadoscoletados2, ai_settings)     *)
(* and the collector's monitor_plc runs.                                   *)
(*                                                                         *)
(* Numbers that Python holds as floats (pulse values read back from a REAL *)
(* column, durations in seconds) are held here in tenths: 10 is 1.0, 9 is  *)
(* 0.9.  None is the Python None.                                          *)
(***************************************************************************)
EXTENDS Integers, Sequences, FiniteSets, TLC

VARIABLES
    \* correction routine (lab-manager/main.py)
    pattern_pairs, sequence_pairs, io_count, reply_done, reply,
    \* collector encoding and its explanation in the report
    e_bits, a_bits, conv_pc, exp_value, act_value, conv_report,
    \* DAO tables plant_config and ground_truth_patterns with their
    \* AUTOINCREMENT counters, the last DAO call and what it returned
    plant_config, plant_config_seq, ground_truth_patterns, ground_truth_seq,
    dao_op, dao_ret,
    \* DAO table ai_settings, the secret in the environment, the last call on
    \* the AI-key settings with its result, and the last successful save
    ai_settings, env_secret, key_op, key_ret, last_save,
    \* DAO tables dadoscoletados2 and dadoscoletados_summary, the byte in the
    \* PLC, and per monitor_plc run its position, locals and save threads
    dadoscoletados2, dadoscoletados_summary, plc_byte, plc_changes,
    mon_pc, experiment_number, contador, old_bits, elapsed, save_threads,
    \* supervisor (remote-laboratory.py): the parsed flags, the commands list,
    \* the position in main, the processes list, each child's state, the
    \* children sent terminate, why the try block was left, the position of
    \* the second loop of the finally block and the timeouts that expired
    args, commands, sup_pc, processes, child, signalled, sup_cause, reap_index,
    wait_expired,
    \* REST API: the last request of the chatbot's APIClient, its response and
    \* what _build_chat_agent came to
    api_request, api_response, chat_agent,
    \* collector __main__: its position, the chosen plant config, its IOs list,
    \* the connection attempts made, the attempts and runs that failed and the
    \* seconds slept between attempts
    col_pc, col_config, col_IOs, col_attempts, col_failures, col_slept,
    \* the last result of get_pulse_values_by_experiment
    pulse_read,
    \* web app process: OPENAI_API_KEY in os.environ, the openai_api_key that
    \* chatbot/settings.py read from the environment at import, and the
    \* resolution of the OpenAI key in progress or last finished
    os_environ, chatbot_settings, resolve,
    \* the last request served by edit_config: what it was, what
    \* update_plant_config returned to it and what it flashed
    edit_config

corrVars == <<pattern_pairs, sequence_pairs, io_count, reply_done, reply>>
convVars == <<e_bits, a_bits, conv_pc, exp_value, act_value, conv_report>>
cfgVars == <<plant_config, plant_config_seq, ground_truth_patterns, ground_truth_seq,
             dao_op, dao_ret>>
keyVars == <<ai_settings, env_secret, key_op, key_ret, last_save>>
monVars == <<dadoscoletados2, dadoscoletados_summary, plc_byte, plc_changes,
             mon_pc, experiment_number, contador, old_bits, elapsed, save_threads>>
supVars == <<args, commands, sup_pc, processes, child, signalled, sup_cause, reap_index,
             wait_expired>>
apiVars == <<api_request, api_response, chat_agent>>
colVars == <<col_pc, col_config, col_IOs, col_attempts, col_failures, col_slept>>
readVars == <<pulse_read>>
resVars == <<os_environ, chatbot_settings, resolve>>
editVars == <<edit_config>>
appVars == <<resVars, editVars>>
extVars == <<supVars, apiVars, colVars, readVars, appVars>>
vars == <<corrVars, convVars, cfgVars, keyVars, monVars, extVars>>

----------------------------------------------------------------------------
(* Bounds of the model *)

MaxPatLen == 2
MaxSeqLen == 4
MaxIoCount == 2
MaxBits == 3
MaxRowId == 3
MaxPlcChanges == 2
MaxPlcChangesTwoRuns == 1
MaxImports == 1
MaxStepRows == 11
MaxAttempts == 3
MaxPatLenSmall == 2
MaxSeqLenSmall == 3

\* tempo_limite of monitor_plc, in seconds, and the time one poll may take
TempoLimite == 30
PollGaps == {20}
\* bytes the PLC holds in DB byte 0
PlcBytes == {0, 1}
\* the collector processes
Runs == {1, 2}

ExperimentNames == {"esteira", "prensa"}
IpAddresses == {"10.0.0.1", "10.0.0.2"}
GroundTruths == {"[1,2]", "[3]"}

\* values of AI_KEY_SECRET, plaintext keys (the empty one is ""), Fernet IVs
Secrets == {"s1", "s2"}
NoKey == <<>>
RawKeys == {<<"sk", "a">>, <<"sk", "b">>}
Ivs == {"iv1", "iv2"}

None == 0 - 1

\* raw pulse values (1.0, 2.0) and raw durations (0.9, 1.0, 1.1)
RawValues == {10, 20}
RawTimes == {9, 10, 11}
Pairs == RawValues \X RawTimes

\* the pairs of the smaller correction specification: durations 0.9 and 1.0
RawTimesSmall == {9, 10}
SmallPairs == RawValues \X RawTimesSmall

SeqsUpTo(S, n) == UNION {[1..k -> S] : k \in 0..n}

Pow2(n) == 2 ^ n

----------------------------------------------------------------------------
(* lab-manager/main.py: helpers of the correction routine *)

\* int(value) / int(float(value)): truncation toward zero; None stays None
TruncateInt(value) ==
    IF value = None THEN None
    ELSE IF value >= 0 THEN value \div 10 ELSE 0 - ((0 - value) \div 10)

RECURSIVE Binary(_)
Binary(v) == IF v < 2 THEN <<v>> ELSE Binary(v \div 2) \o <<v % 2>>

\* format(value, "0{width}b"): at least width digits, most significant first
FormatBits(value, width) ==
    IF value = None \/ width <= 0 THEN <<>>
    ELSE LET b == Binary(value)
         IN  IF Len(b) >= width THEN b
             ELSE [i \in 1..width |-> IF i <= width - Len(b) THEN 0 ELSE b[i - (width - Len(b))]]

StepOk(expected, actual) ==
    LET exp_int == TruncateInt(expected)
        act_int == TruncateInt(actual)
    IN  IF exp_int = None \/ act_int = None THEN FALSE ELSE exp_int = act_int

TimeOk(expected, actual) ==
    LET exp_int == TruncateInt(expected)
        act_int == TruncateInt(actual)
    IN  IF exp_int = None \/ act_int = None THEN FALSE ELSE exp_int = act_int

ValueInvalid(value, bit_count) ==
    IF bit_count <= 0 THEN FALSE
    ELSE LET value_int == TruncateInt(value)
         IN  IF value_int = None THEN TRUE ELSE value_int > Pow2(bit_count) - 1

NotTrimmed(sequence) == sequence

\* sequence[:-1] when the sequence has more than one element
Trimmed(sequence) ==
    IF Len(sequence) > 1 THEN SubSeq(sequence, 1, Len(sequence) - 1) ELSE sequence

\* the inner loop of one cycle: every offset valid and equal in value and time
CycleMatched(pattern, sequence, cycle, bit_count) ==
    \A offset \in 0..(Len(pattern) - 1) :
        LET exp == pattern[offset + 1]
            act == sequence[cycle * Len(pattern) + offset + 1]
        IN  /\ ~ValueInvalid(act[1], bit_count)
            /\ StepOk(exp[1], act[1])
            /\ TimeOk(exp[2], act[2])

CompleteOccurrences(pattern, sequence, bit_count) ==
    LET total_cycles == Len(sequence) \div Len(pattern)
    IN  Cardinality({cycle \in 0..(total_cycles - 1) :
                        CycleMatched(pattern, sequence, cycle, bit_count)})

\* one line of the table: professor cell, student cell and the two flags
TableRow(pattern, sequence, index) ==
    LET exp == pattern[(index % Len(pattern)) + 1]
        act == sequence[index + 1]
        step_match == StepOk(exp[1], act[1])
        time_match == TimeOk(exp[2], act[2])
    IN  [index |-> index,
         professor |-> exp,
         aluno |-> act,
         step_match |-> step_match,
         time_match |-> time_match,
         incorrect |-> IF step_match /\ time_match THEN <<>>
                       ELSE IF step_match THEN <<act[2]>>
                       ELSE IF time_match THEN <<act[1]>>
                       ELSE <<act[1], act[2]>>]

\* the loop "for index in range(seq_len)": a row for every element
TableRows(pattern, sequence) ==
    [k \in 1..Len(sequence) |-> TableRow(pattern, sequence, k - 1)]

\* (exp_step_int >> bit_index) & 1
BitAt(value_int, bit_index) ==
    IF value_int = None THEN 0 ELSE (value_int \div Pow2(bit_index)) % 2

DiffIoLsbFirst(exp_step_int, act_step_int, bit_count, i) ==
    [io |-> i,
     differs |-> BitAt(exp_step_int, i) # BitAt(act_step_int, i),
     exp_on |-> BitAt(exp_step_int, i) = 1,
     act_on |-> BitAt(act_step_int, i) = 1]

\* the comparison of I/O i (0-based index into io_names) of a value mismatch
DiffIo(exp_step_int, act_step_int, bit_count, i) ==
    LET bit_index == bit_count - 1 - i
    IN  [io |-> i,
         differs |-> BitAt(exp_step_int, bit_index) # BitAt(act_step_int, bit_index),
         exp_on |-> BitAt(exp_step_int, bit_index) = 1,
         act_on |-> BitAt(act_step_int, bit_index) = 1]

\* the "- io_name: exp_state -> act_state" lines of one value mismatch
DiffIos(exp_step, act_step, bit_count) ==
    LET exp_step_int == TruncateInt(exp_step)
        act_step_int == TruncateInt(act_step)
    IN  IF FormatBits(exp_step_int, bit_count) = <<>> THEN {}
        ELSE {[io |-> d.io, exp_on |-> d.exp_on, act_on |-> d.act_on] :
                d \in {DiffIo(exp_step_int, act_step_int, bit_count, i) :
                          i \in {j \in 0..(bit_count - 1) :
                                   DiffIo(exp_step_int, act_step_int, bit_count, j).differs}}}

\* the explanation block of one table row (empty for a matching row)
Explain(row, bit_count) ==
    [index |-> row.index,
     valor |-> ~row.step_match,
     valor_incorreto |-> IF row.step_match THEN None ELSE row.aluno[1],
     bits_actual |-> IF row.step_match THEN <<>>
                     ELSE FormatBits(TruncateInt(row.aluno[1]), bit_count),
     diff_ios |-> IF row.step_match THEN {}
                  ELSE DiffIos(row.professor[1], row.aluno[1], bit_count),
     tempo |-> ~row.time_match,
     tempo_incorreto |-> IF row.time_match THEN None ELSE row.aluno[2]]

Explanations(table, bit_count) ==
    LET bad == SelectSeq(table, LAMBDA row : ~(row.step_match /\ row.time_match))
    IN  [k \in 1..Len(bad) |-> Explain(bad[k], bit_count)]

NoReply ==
    [verdict |-> "", occurrences |-> 0, reason |-> <<>>, table |-> <<>>, explain |-> <<>>]

EmptyReasonPatternOnly(pattern_len, seq_len) ==
    IF pattern_len = 0 THEN <<"Padrao vazio">> ELSE <<>>

\* the reason list of the rejection of an empty pattern or sequence
EmptyReason(pattern_len, seq_len) ==
    (IF pattern_len = 0 THEN <<"Padrao vazio">> ELSE <<>>)
        \o (IF seq_len = 0 THEN <<"Sequencia vazia">> ELSE <<>>)

\* _format_correction_output(pattern_pairs, sequence_pairs, io_names),
\* io_names given by its length
FormatCorrectionOutput(pattern, sequence_in, bit_count) ==
    LET sequence == Trimmed(sequence_in)
        pattern_len == Len(pattern)
        seq_len == Len(sequence)
    IN  IF pattern_len = 0 \/ seq_len = 0
        THEN [NoReply EXCEPT
                !.verdict = "nao",
                !.reason = EmptyReason(pattern_len, seq_len)]
        ELSE LET complete_occurrences == CompleteOccurrences(pattern, sequence, bit_count)
             IN  IF complete_occurrences >= 2
                 THEN [NoReply EXCEPT !.verdict = "sim", !.occurrences = complete_occurrences]
                 ELSE LET table == TableRows(pattern, sequence)
                      IN  [verdict |-> "nao",
                           occurrences |-> complete_occurrences,
                           reason |-> <<>>,
                           table |-> table,
                           explain |-> Explanations(table, bit_count)]

----------------------------------------------------------------------------
(* collecting_profinet.py: the encoding of a step *)

RECURSIVE ConvertLoop(_, _, _)
\* the loop over reversed(step): rest is what is left of the reversed list
ConvertLoop(rest, fator_multiplicativo, resultado) ==
    IF rest = <<>> THEN resultado
    ELSE ConvertLoop(Tail(rest), fator_multiplicativo * 2,
                     IF Head(rest) THEN resultado + fator_multiplicativo ELSE resultado)

Reversed(step) == [i \in 1..Len(step) |-> step[Len(step) + 1 - i]]

ConvertDataLsbFirst(step) == ConvertLoop(step, 1, 0)

ConvertData(step) == ConvertLoop(Reversed(step), 1, 0)

----------------------------------------------------------------------------
(* The state of each part before anything has run: a specification of one  *)
(* part keeps the other parts in this state.                               *)

CorrIdle ==
    /\ pattern_pairs = <<>>
    /\ sequence_pairs = <<>>
    /\ io_count = 0
    /\ reply_done = FALSE
    /\ reply = NoReply

ConvIdle ==
    /\ e_bits = <<>>
    /\ a_bits = <<>>
    /\ conv_pc = "input"
    /\ exp_value = 0
    /\ act_value = 0
    /\ conv_report = NoReply

NoOp == [op |-> "", id |-> 0, name |-> ""]

CfgIdle ==
    /\ plant_config = {}
    /\ plant_config_seq = 0
    /\ ground_truth_patterns = {}
    /\ ground_truth_seq = 0
    /\ dao_op = NoOp
    /\ dao_ret = None

NoKeyOp == [op |-> "", source |-> "", raw_key |-> NoKey]
NoKeyRet == [saved |-> FALSE, raised |-> FALSE, key |-> NoKey, invalid |-> FALSE]
NoSave == [source |-> "", raw_key |-> NoKey, secret |-> ""]

KeyIdle ==
    /\ ai_settings = <<>>
    /\ env_secret = "s1"
    /\ key_op = NoKeyOp
    /\ key_ret = NoKeyRet
    /\ last_save = NoSave

MonIdle ==
    /\ dadoscoletados2 = <<>>
    /\ dadoscoletados_summary = <<>>
    /\ plc_byte = 0
    /\ plc_changes = 0
    /\ mon_pc = [r \in Runs |-> "idle"]
    /\ experiment_number = [r \in Runs |-> 0]
    /\ contador = [r \in Runs |-> 0]
    /\ old_bits = [r \in Runs |-> <<>>]
    /\ elapsed = [r \in Runs |-> 0]
    /\ save_threads = {}

ChildNames == {"collecting_profinet", "lab-manager", "chatbot"}
NoArgs == [collector |-> FALSE, terminal_chatbot |-> FALSE]

SupIdle ==
    /\ args = NoArgs
    /\ commands = <<>>
    /\ sup_pc = "parse"
    /\ processes = <<>>
    /\ child = [c \in ChildNames |-> "unstarted"]
    /\ signalled = {}
    /\ sup_cause = ""
    /\ reap_index = 0
    /\ wait_expired = {}

NoRequest == [method |-> "", rule |-> "", id |-> 0, name |-> ""]
NoResponse == [status |-> 0, body |-> {}]

ApiIdle ==
    /\ api_request = NoRequest
    /\ api_response = NoResponse
    /\ chat_agent = ""

NoConfig == [num_of_inputs |-> 0, num_of_outputs |-> 0]

ColIdle ==
    /\ col_pc = "config"
    /\ col_config = NoConfig
    /\ col_IOs = <<>>
    /\ col_attempts = 0
    /\ col_failures = 0
    /\ col_slept = 0

ReadIdle == pulse_read = <<>>

NoResolve == [app |-> "", pc |-> "idle", source |-> "", env_key |-> NoKey, seen |-> <<>>,
              db |-> "", path |-> "", cleared |-> "", key |-> NoKey, raised |-> "",
              last_source |-> ""]

ResIdle ==
    /\ os_environ = NoKey
    /\ chatbot_settings = NoKey
    /\ resolve = NoResolve

NoEdit == [config_id |-> 0, method |-> "", experiment_name |-> "", rowcount |-> None,
           flashes |-> <<>>]

EditIdle == edit_config = NoEdit

AppIdle ==
    /\ ResIdle
    /\ EditIdle

ExtIdle ==
    /\ SupIdle
    /\ ApiIdle
    /\ ColIdle
    /\ ReadIdle
    /\ AppIdle

----------------------------------------------------------------------------
(* src/db_dao.py: plant_config and ground_truth_patterns *)

NoUniqueConstraint(table, name, own_id) == FALSE

\* "experiment_name TEXT NOT NULL UNIQUE": the statement that would leave two
\* rows with this name raises IntegrityError (own_id is the row being updated,
\* 0 for an INSERT)
ViolatesUnique(table, name, own_id) ==
    \E row \in table : row.experiment_name = name /\ row.id # own_id

\* create_plant_config: INSERT, commit, return cursor.lastrowid; None on a
\* database error
CreatePlantConfig(experiment_name, ip_profinet) ==
    /\ dao_op' = [op |-> "create_plant_config", id |-> 0, name |-> experiment_name]
    /\ IF ViolatesUnique(plant_config, experiment_name, 0)
       THEN /\ dao_ret' = None
            /\ UNCHANGED <<plant_config, plant_config_seq>>
       ELSE /\ plant_config_seq < MaxRowId
            /\ plant_config_seq' = plant_config_seq + 1
            /\ plant_config' = plant_config \cup
                  {[id |-> plant_config_seq + 1,
                    experiment_name |-> experiment_name,
                    ip_profinet |-> ip_profinet]}
            /\ dao_ret' = plant_config_seq + 1
    /\ UNCHANGED <<ground_truth_patterns, ground_truth_seq, corrVars, convVars, keyVars, monVars, extVars>>

\* update_plant_config: UPDATE ... WHERE id, commit, return cursor.rowcount;
\* 0 on a database error
UpdatePlantConfig(config_id, experiment_name, ip_profinet) ==
    /\ dao_op' = [op |-> "update_plant_config", id |-> config_id, name |-> experiment_name]
    /\ IF \A row \in plant_config : row.id # config_id
       THEN /\ dao_ret' = 0
            /\ UNCHANGED plant_config
       ELSE IF ViolatesUnique(plant_config, experiment_name, config_id)
       THEN /\ dao_ret' = 0
            /\ UNCHANGED plant_config
       ELSE /\ plant_config' = {row \in plant_config : row.id # config_id} \cup
                  {[id |-> config_id,
                    experiment_name |-> experiment_name,
                    ip_profinet |-> ip_profinet]}
            /\ dao_ret' = 1
    /\ UNCHANGED <<plant_config_seq, ground_truth_patterns, ground_truth_seq,
                   corrVars, convVars, keyVars, monVars, extVars>>

\* delete_plant_config: DELETE ... WHERE id, return rowcount > 0 (1 for True)
DeletePlantConfig(config_id) ==
    /\ dao_op' = [op |-> "delete_plant_config", id |-> config_id, name |-> ""]
    /\ plant_config' = {row \in plant_config : row.id # config_id}
    /\ dao_ret' = IF \E row \in plant_config : row.id = config_id THEN 1 ELSE 0
    /\ UNCHANGED <<plant_config_seq, ground_truth_patterns, ground_truth_seq,
                   corrVars, convVars, keyVars, monVars, extVars>>

\* create_ground_truth_pattern
CreateGroundTruthPattern(experiment_name, ground_truth) ==
    /\ dao_op' = [op |-> "create_ground_truth_pattern", id |-> 0, name |-> experiment_name]
    /\ IF ViolatesUnique(ground_truth_patterns, experiment_name, 0)
       THEN /\ dao_ret' = None
            /\ UNCHANGED <<ground_truth_patterns, ground_truth_seq>>
       ELSE /\ ground_truth_seq < MaxRowId
            /\ ground_truth_seq' = ground_truth_seq + 1
            /\ ground_truth_patterns' = ground_truth_patterns \cup
                  {[id |-> ground_truth_seq + 1,
                    experiment_name |-> experiment_name,
                    ground_truth |-> ground_truth]}
            /\ dao_ret' = ground_truth_seq + 1
    /\ UNCHANGED <<plant_config, plant_config_seq, corrVars, convVars, keyVars, monVars, extVars>>

\* update_ground_truth_pattern
UpdateGroundTruthPattern(pattern_id, experiment_name, ground_truth) ==
    /\ dao_op' = [op |-> "update_ground_truth_pattern", id |-> pattern_id,
                  name |-> experiment_name]
    /\ IF \A row \in ground_truth_patterns : row.id # pattern_id
       THEN /\ dao_ret' = 0
            /\ UNCHANGED ground_truth_patterns
       ELSE IF ViolatesUnique(ground_truth_patterns, experiment_name, pattern_id)
       THEN /\ dao_ret' = 0
            /\ UNCHANGED ground_truth_patterns
       ELSE /\ ground_truth_patterns' =
                  {row \in ground_truth_patterns : row.id # pattern_id} \cup
                  {[id |-> pattern_id,
                    experiment_name |-> experiment_name,
                    ground_truth |-> ground_truth]}
            /\ dao_ret' = 1
    /\ UNCHANGED <<plant_config, plant_config_seq, ground_truth_seq,
                   corrVars, convVars, keyVars, monVars, extVars>>

\* delete_ground_truth_pattern
DeleteGroundTruthPattern(pattern_id) ==
    /\ dao_op' = [op |-> "delete_ground_truth_pattern", id |-> pattern_id, name |-> ""]
    /\ ground_truth_patterns' = {row \in ground_truth_patterns : row.id # pattern_id}
    /\ dao_ret' = IF \E row \in ground_truth_patterns : row.id = pattern_id THEN 1 ELSE 0
    /\ UNCHANGED <<plant_config, plant_config_seq, ground_truth_seq,
                   corrVars, convVars, keyVars, monVars, extVars>>

InitCfg ==
    /\ CfgIdle
    /\ CorrIdle
    /\ ConvIdle
    /\ KeyIdle
    /\ MonIdle
    /\ ExtIdle

NextCfg ==
    \/ \E n \in ExperimentNames, ip \in IpAddresses : CreatePlantConfig(n, ip)
    \/ \E id \in 1..MaxRowId, n \in ExperimentNames, ip \in IpAddresses :
          UpdatePlantConfig(id, n, ip)
    \/ \E id \in 1..MaxRowId : DeletePlantConfig(id)
    \/ \E n \in ExperimentNames, g \in GroundTruths : CreateGroundTruthPattern(n, g)
    \/ \E id \in 1..MaxRowId, n \in ExperimentNames, g \in GroundTruths :
          UpdateGroundTruthPattern(id, n, g)
    \/ \E id \in 1..MaxRowId : DeleteGroundTruthPattern(id)

SpecCfg == InitCfg /\ [][NextCfg]_vars

----------------------------------------------------------------------------
(* src/db_dao.py: the AI-key settings *)

EncryptPlain(secret, iv, value) == value

\* _encrypt: Fernet(key derived from the secret).encrypt(value): a token that
\* carries the plaintext under the secret and a fresh IV
Encrypt(secret, iv, value) == <<"fernet", secret, iv>> \o value

\* Fernet.decrypt: the plaintext when the token was made under this secret,
\* InvalidToken (NoKey here, with the flag) otherwise
ValidToken(secret, token) ==
    Len(token) > 3 /\ token[1] = "fernet" /\ token[2] = secret

Decrypt(secret, token) == SubSeq(token, 4, Len(token))

InsertKeeping(table, source, encrypted_key) ==
    Append(table, [source |-> source, encrypted_key |-> encrypted_key])

\* "DELETE FROM ai_settings" followed by the INSERT, in one transaction
ReplaceSettings(table, source, encrypted_key) ==
    <<[source |-> source, encrypted_key |-> encrypted_key]>>

\* save_ai_key_settings(source, raw_key); db_ok is whether the statements run
\* without a database error
SaveAiKeySettings(source, raw_key, iv, db_ok) ==
    /\ key_op' = [op |-> "save", source |-> source, raw_key |-> raw_key]
    /\ IF source \notin {"system_variable", "manual"} \/ (source = "manual" /\ raw_key = NoKey)
       THEN /\ key_ret' = [NoKeyRet EXCEPT !.raised = TRUE]
            /\ UNCHANGED <<ai_settings, last_save>>
       ELSE IF ~db_ok
       THEN /\ key_ret' = NoKeyRet
            /\ UNCHANGED <<ai_settings, last_save>>
       ELSE /\ ai_settings' = ReplaceSettings(ai_settings, source,
                                 IF source = "manual" THEN Encrypt(env_secret, iv, raw_key)
                                 ELSE NoKey)
            /\ key_ret' = [NoKeyRet EXCEPT !.saved = TRUE]
            /\ last_save' = [source |-> source, raw_key |-> raw_key, secret |-> env_secret]
    /\ UNCHANGED <<env_secret, corrVars, convVars, cfgVars, monVars, extVars>>

\* get_ai_key_settings: the newest row, None (<<>>) when there is none
GetAiKeySettings == IF ai_settings = <<>> THEN <<>> ELSE <<ai_settings[Len(ai_settings)]>>

\* what load_manual_ai_key makes of the row get_ai_key_settings gave it:
\* (key, invalid_token_flag)
LoadedManualAiKey(settings) ==
    IF settings = <<>> THEN [key |-> NoKey, invalid |-> FALSE]
    ELSE IF settings[1].source # "manual" THEN [key |-> NoKey, invalid |-> FALSE]
    ELSE IF settings[1].encrypted_key = NoKey THEN [key |-> NoKey, invalid |-> FALSE]
    ELSE IF ValidToken(env_secret, settings[1].encrypted_key)
         THEN [key |-> Decrypt(env_secret, settings[1].encrypted_key), invalid |-> FALSE]
         ELSE [key |-> NoKey, invalid |-> TRUE]

\* load_manual_ai_key: (key, invalid_token_flag)
LoadManualAiKey ==
    /\ key_op' = [NoKeyOp EXCEPT !.op = "load"]
    /\ key_ret' =
          LET loaded == LoadedManualAiKey(GetAiKeySettings)
          IN  [NoKeyRet EXCEPT !.key = loaded.key, !.invalid = loaded.invalid]
    /\ UNCHANGED <<ai_settings, env_secret, last_save, corrVars, convVars, cfgVars, monVars, extVars>>

\* clear_ai_key_settings: DELETE FROM ai_settings, nothing on a database error
ClearAiKeySettings(db_ok) ==
    /\ key_op' = [NoKeyOp EXCEPT !.op = "clear"]
    /\ key_ret' = NoKeyRet
    /\ IF db_ok
       THEN ai_settings' = <<>> /\ last_save' = NoSave
       ELSE UNCHANGED <<ai_settings, last_save>>
    /\ UNCHANGED <<env_secret, corrVars, convVars, cfgVars, monVars, extVars>>

\* the operator restarts the application with another AI_KEY_SECRET
ChangeSecret(secret) ==
    /\ secret # env_secret
    /\ env_secret' = secret
    /\ key_op' = [NoKeyOp EXCEPT !.op = "setenv"]
    /\ key_ret' = NoKeyRet
    /\ UNCHANGED <<ai_settings, last_save, corrVars, convVars, cfgVars, monVars, extVars>>

InitKey ==
    /\ KeyIdle
    /\ CorrIdle
    /\ ConvIdle
    /\ CfgIdle
    /\ MonIdle
    /\ ExtIdle

NextKey ==
    \/ \E source \in {"system_variable", "manual", "other"},
          raw_key \in RawKeys \cup {NoKey}, iv \in Ivs, db_ok \in BOOLEAN :
          SaveAiKeySettings(source, raw_key, iv, db_ok)
    \/ LoadManualAiKey
    \/ \E db_ok \in BOOLEAN : ClearAiKeySettings(db_ok)
    \/ \E secret \in Secrets : ChangeSecret(secret)

SpecKey == InitKey /\ [][NextKey]_vars

----------------------------------------------------------------------------
(* collecting_profinet.py and src/db_dao.py: the collected rows *)

\* generate_IOs: the list it returns is the last one assigned, whatever the
\* numbers of inputs and outputs
GenerateIOs(num_inputs, num_outputs) ==
    <<"Recuar_cilindro1A", "Avancar_cilindro1A", "Recuar_cilindro2A", "Avancar_cilindro2A">>

IOs == GenerateIOs(2, 2)

\* get_step_list: get_bool(byte, 0, bit_index) for bit_index in range(num_bits)
GetStepList(byte, num_bits) ==
    [k \in 1..num_bits |-> (byte \div Pow2(k - 1)) % 2 = 1]

\* SELECT MAX(experiment_id) FROM dadoscoletados2; None on an empty table
GetLastExperimentId ==
    IF dadoscoletados2 = <<>> THEN None
    ELSE CHOOSE m \in {dadoscoletados2[i].experiment_id : i \in 1..Len(dadoscoletados2)} :
            \A i \in 1..Len(dadoscoletados2) : dadoscoletados2[i].experiment_id <= m

CollectedRow(experiment_id, step, pulse_train, pulse_value, duration, writer) ==
    [experiment_id |-> experiment_id, step |-> step, pulse_train |-> pulse_train,
     pulse_value |-> pulse_value, duration |-> duration, writer |-> writer]

InsertReplacingStep(table, row) ==
    SelectSeq(table, LAMBDA old : ~(old.experiment_id = row.experiment_id /\ old.step = row.step))
        \o <<row>>

\* the INSERT INTO dadoscoletados2 of insert_data_into_database and of
\* insert_data_with_duration
InsertCollected(table, row) == Append(table, row)

\* insert_data_with_duration
InsertDataWithDuration(table, experiment_number_, step, pulse_train, pulse_value, duration, writer) ==
    InsertCollected(table,
        CollectedRow(experiment_number_, step, pulse_train, pulse_value, duration, writer))

\* insert_data_into_database: the duration column stays NULL
InsertDataIntoDatabase(table, experiment_number_, step, pulse_train, pulse_value, writer) ==
    InsertCollected(table,
        CollectedRow(experiment_number_, step, pulse_train, pulse_value, None, writer))

\* save_previous_state(experiment_number, byte, IOs, cont, ..., duration)
SavePreviousState(table, experiment_number_, byte, cont, duration, writer) ==
    LET step == GetStepList(byte, Len(IOs))
    IN  InsertDataWithDuration(table, experiment_number_, cont, step, ConvertData(step),
                               duration, writer)

RECURSIVE Digits(_)
\* json.dumps(step): the decimal text of a step index
Digits(n) == IF n < 10 THEN <<n>> ELSE Digits(n \div 10) \o <<n % 10>>

RECURSIVE TextLess(_, _)
\* the order of two TEXT values
TextLess(a, b) ==
    IF a = <<>> THEN b # <<>>
    ELSE IF b = <<>> THEN FALSE
    ELSE IF Head(a) # Head(b) THEN Head(a) < Head(b)
    ELSE TextLess(Tail(a), Tail(b))

\* rows before row i in "ORDER BY step ASC" (rows of equal step in rowid order)
RankByStep(rows, i) ==
    Cardinality({j \in 1..Len(rows) :
        \/ TextLess(Digits(rows[j].step), Digits(rows[i].step))
        \/ (rows[j].step = rows[i].step /\ j < i)})

\* get_pulse_values_by_experiment
GetPulseValuesByExperiment(experiment_id) ==
    LET rows == SelectSeq(dadoscoletados2, LAMBDA row : row.experiment_id = experiment_id)
    IN  [k \in 1..Len(rows) |->
            rows[CHOOSE i \in 1..Len(rows) : RankByStep(rows, i) = k - 1].pulse_value]

\* monitor_plc up to the loop: experiment_number = get_last_experiment_id() + 1,
\* 1 when that raises on None
StartRun(r) ==
    /\ mon_pc[r] = "idle"
    /\ experiment_number' = [experiment_number EXCEPT ![r] =
          IF GetLastExperimentId = None THEN 1 ELSE GetLastExperimentId + 1]
    /\ contador' = [contador EXCEPT ![r] = 0]
    /\ old_bits' = [old_bits EXCEPT ![r] = <<>>]
    /\ elapsed' = [elapsed EXCEPT ![r] = 0]
    /\ mon_pc' = [mon_pc EXCEPT ![r] = "loop"]
    /\ UNCHANGED <<dadoscoletados2, dadoscoletados_summary, plc_byte, plc_changes,
                   save_threads, corrVars, convVars, cfgVars, keyVars, extVars>>

ContNotDecremented(contador_) == contador_

\* "contador - 1": the step index passed to save_previous_state
PreviousCont(contador_) == contador_ - 1

TimedOutAtLimit(since_change) == since_change >= TempoLimite

\* (tempo_final - start_time) > tempo_limite
TimedOut(since_change) == since_change > TempoLimite

\* one pass of the while loop; gap is the time since the previous pass
Poll(r, gap) ==
    /\ mon_pc[r] = "loop"
    /\ LET byte == plc_byte
           current_bits == GetStepList(byte, Len(IOs))
           duracao_estado == elapsed[r] + gap
       IN  IF old_bits[r] # current_bits
           THEN /\ save_threads' =
                      IF old_bits[r] # <<>>
                      THEN save_threads \cup
                             {[run |-> r, experiment_number |-> experiment_number[r],
                               byte |-> byte, cont |-> PreviousCont(contador[r]),
                               duration |-> duracao_estado]}
                      ELSE save_threads
                /\ old_bits' = [old_bits EXCEPT ![r] = current_bits]
                /\ contador' = [contador EXCEPT ![r] = contador[r] + 1]
                /\ elapsed' = [elapsed EXCEPT ![r] = 0]
                /\ UNCHANGED <<dadoscoletados2, mon_pc>>
           ELSE IF TimedOut(duracao_estado)
           THEN /\ dadoscoletados2' =
                      SavePreviousState(dadoscoletados2, experiment_number[r], byte,
                                        PreviousCont(contador[r]), duracao_estado, r)
                /\ elapsed' = [elapsed EXCEPT ![r] = duracao_estado]
                /\ mon_pc' = [mon_pc EXCEPT ![r] = "summary"]
                /\ UNCHANGED <<save_threads, old_bits, contador>>
           ELSE /\ elapsed' = [elapsed EXCEPT ![r] = duracao_estado]
                /\ UNCHANGED <<dadoscoletados2, mon_pc, save_threads, old_bits, contador>>
    /\ UNCHANGED <<dadoscoletados_summary, plc_byte, plc_changes, experiment_number,
                   corrVars, convVars, cfgVars, keyVars, extVars>>

\* a thread started by the loop runs save_previous_state
RunSaveThread(th) ==
    /\ th \in save_threads
    /\ save_threads' = save_threads \ {th}
    /\ dadoscoletados2' =
          SavePreviousState(dadoscoletados2, th.experiment_number, th.byte, th.cont,
                            th.duration, th.run)
    /\ UNCHANGED <<dadoscoletados_summary, plc_byte, plc_changes, mon_pc, experiment_number,
                   contador, old_bits, elapsed, corrVars, convVars, cfgVars, keyVars, extVars>>

\* after the loop: read the pulse values of the last experiment, insert the
\* summary pattern under experiment_number, exit
InsertSummary(r) ==
    /\ mon_pc[r] = "summary"
    /\ dadoscoletados_summary' = Append(dadoscoletados_summary,
          [experiment_id |-> experiment_number[r],
           pattern |-> GetPulseValuesByExperiment(GetLastExperimentId)])
    /\ mon_pc' = [mon_pc EXCEPT ![r] = "exited"]
    /\ UNCHANGED <<dadoscoletados2, plc_byte, plc_changes, experiment_number, contador,
                   old_bits, elapsed, save_threads, corrVars, convVars, cfgVars, keyVars, extVars>>

\* the plant moves: the byte in the PLC changes
PlcChange(byte) ==
    /\ plc_changes < MaxPlcChanges
    /\ byte # plc_byte
    /\ plc_byte' = byte
    /\ plc_changes' = plc_changes + 1
    /\ UNCHANGED <<dadoscoletados2, dadoscoletados_summary, mon_pc, experiment_number,
                   contador, old_bits, elapsed, save_threads,
                   corrVars, convVars, cfgVars, keyVars, extVars>>

ImportedRows == Len(SelectSeq(dadoscoletados2, LAMBDA row : row.writer = 0))

\* readfiles._persist_rows: one CSV line of a file named after experiment_id,
\* through insert_data_with_duration when the file has a duration column
PersistRow(experiment_id, step_index, byte, has_duration) ==
    /\ ImportedRows < MaxImports
    /\ dadoscoletados2' =
          LET pulse_train == GetStepList(byte, Len(IOs))
          IN  IF has_duration
              THEN InsertDataWithDuration(dadoscoletados2, experiment_id, step_index,
                                          pulse_train, ConvertData(pulse_train), 0, 0)
              ELSE InsertDataIntoDatabase(dadoscoletados2, experiment_id, step_index,
                                          pulse_train, ConvertData(pulse_train), 0)
    /\ UNCHANGED <<dadoscoletados_summary, plc_byte, plc_changes, mon_pc, experiment_number,
                   contador, old_bits, elapsed, save_threads,
                   corrVars, convVars, cfgVars, keyVars, extVars>>

InitMon ==
    /\ MonIdle
    /\ CorrIdle
    /\ ConvIdle
    /\ CfgIdle
    /\ KeyIdle
    /\ ExtIdle

\* one collector process, the plant, and readfiles importing CSV lines
NextMon ==
    \/ StartRun(1)
    \/ \E gap \in PollGaps : Poll(1, gap)
    \/ \E th \in save_threads : RunSaveThread(th)
    \/ InsertSummary(1)
    \/ \E byte \in PlcBytes : PlcChange(byte)
    \/ \E experiment_id \in 1..2, byte \in PlcBytes, has_duration \in BOOLEAN :
          PersistRow(experiment_id, 0, byte, has_duration)

SpecMon == InitMon /\ [][NextMon]_vars

\* two collector processes, the second started once the first is running,
\* and the plant
NextRuns ==
    \/ StartRun(1)
    \/ (mon_pc[1] # "idle" /\ StartRun(2))
    \/ \E r \in Runs, gap \in PollGaps : Poll(r, gap)
    \/ \E th \in save_threads : RunSaveThread(th)
    \/ \E r \in Runs : InsertSummary(r)
    \/ \E byte \in PlcBytes : plc_changes < MaxPlcChangesTwoRuns /\ PlcChange(byte)

SpecRuns == InitMon /\ [][NextRuns]_vars

\* the time one poll may take when the timeout is looked at closely
PollGapsTimeout == {10, 20}

\* one collector process and the plant, polls 10 or 20 seconds apart
NextTimeout ==
    \/ StartRun(1)
    \/ \E gap \in PollGapsTimeout : Poll(1, gap)
    \/ \E th \in save_threads : RunSaveThread(th)
    \/ InsertSummary(1)
    \/ \E byte \in PlcBytes : PlcChange(byte)

\* the while loop of a started run keeps going round
SpecTimeout ==
    /\ InitMon
    /\ [][NextTimeout]_vars
    /\ WF_vars(\E gap \in PollGapsTimeout : Poll(1, gap))

----------------------------------------------------------------------------
(* Specification of the correction routine on bounded inputs *)

InitCorr ==
    /\ pattern_pairs \in SeqsUpTo(Pairs, MaxPatLen)
    /\ sequence_pairs \in SeqsUpTo(Pairs, MaxSeqLen)
    /\ io_count \in 1..MaxIoCount
    /\ reply_done = FALSE
    /\ reply = NoReply
    /\ ConvIdle
    /\ CfgIdle
    /\ KeyIdle
    /\ MonIdle
    /\ ExtIdle

\* collected_data_correction calls the routine and renders its reply
Correct ==
    /\ ~reply_done
    /\ reply' = FormatCorrectionOutput(pattern_pairs, sequence_pairs, io_count)
    /\ reply_done' = TRUE
    /\ UNCHANGED <<pattern_pairs, sequence_pairs, io_count, convVars, cfgVars, keyVars, monVars, extVars>>

NextCorr == Correct

SpecCorr == InitCorr /\ [][NextCorr]_vars

\* the correction routine on a smaller set of inputs
InitCorrSmall ==
    /\ pattern_pairs \in SeqsUpTo(SmallPairs, MaxPatLenSmall)
    /\ sequence_pairs \in SeqsUpTo(SmallPairs, MaxSeqLenSmall)
    /\ io_count \in {1, 2}
    /\ reply_done = FALSE
    /\ reply = NoReply
    /\ ConvIdle
    /\ CfgIdle
    /\ KeyIdle
    /\ MonIdle
    /\ ExtIdle

SpecCorrSmall == InitCorrSmall /\ [][NextCorr]_vars

----------------------------------------------------------------------------
(* Specification of the encoding and of its explanation in the report *)

InitConv ==
    /\ \E n \in 0..MaxBits :
          /\ e_bits \in [1..n -> BOOLEAN]
          /\ a_bits \in [1..n -> BOOLEAN]
    /\ conv_pc = "input"
    /\ exp_value = 0
    /\ act_value = 0
    /\ conv_report = NoReply
    /\ CorrIdle
    /\ CfgIdle
    /\ KeyIdle
    /\ MonIdle
    /\ ExtIdle

\* the collector encodes the expected and the observed step
Convert ==
    /\ conv_pc = "input"
    /\ exp_value' = ConvertData(e_bits)
    /\ act_value' = ConvertData(a_bits)
    /\ conv_pc' = "converted"
    /\ UNCHANGED <<e_bits, a_bits, conv_report, corrVars, cfgVars, keyVars, monVars, extVars>>

\* the correction compares the two encoded values (same duration, one element)
ExplainMismatch ==
    /\ conv_pc = "converted"
    /\ conv_report' = FormatCorrectionOutput(<<<<exp_value * 10, 10>>>>,
                                             <<<<act_value * 10, 10>>>>,
                                             Len(e_bits))
    /\ conv_pc' = "explained"
    /\ UNCHANGED <<e_bits, a_bits, exp_value, act_value, corrVars, cfgVars, keyVars, monVars, extVars>>

NextConv == Convert \/ ExplainMismatch

SpecConv == InitConv /\ [][NextConv]_vars

----------------------------------------------------------------------------
(* remote-laboratory.py: the supervisor *)

CommandsFlaskFirst(a) ==
    <<"lab-manager">>
        \o (IF a.collector THEN <<"collecting_profinet">> ELSE <<>>)
        \o (IF a.terminal_chatbot THEN <<"chatbot">> ELSE <<>>)

\* the commands list main builds from the flags
Commands(a) ==
    (IF a.collector THEN <<"collecting_profinet">> ELSE <<>>)
        \o <<"lab-manager">>
        \o (IF a.terminal_chatbot THEN <<"chatbot">> ELSE <<>>)

\* proc.poll() is None
Running(c) == child[c] = "running"

OnTimeoutExpiredIgnored == "running"

\* except subprocess.TimeoutExpired: proc.kill()
OnTimeoutExpired == "killed"

\* proc.wait(timeout=5)
WaitTimeout == 5

\* parse_args and main up to the try block
ParseArgs(collector, terminal_chatbot) ==
    /\ sup_pc = "parse"
    /\ args' = [collector |-> collector, terminal_chatbot |-> terminal_chatbot]
    /\ commands' = Commands(args')
    /\ sup_pc' = IF commands' = <<>> THEN "done" ELSE "start"
    /\ UNCHANGED <<processes, child, signalled, sup_cause, reap_index, wait_expired,
                   corrVars, convVars, cfgVars, keyVars, monVars, apiVars, colVars, readVars, appVars>>

\* one pass of "for cmd, name in commands": Popen starts the child, or raises
StartProcess(popen_ok) ==
    /\ sup_pc = "start"
    /\ Len(processes) < Len(commands)
    /\ LET name == commands[Len(processes) + 1]
       IN  IF popen_ok
           THEN /\ processes' = Append(processes, name)
                /\ child' = [child EXCEPT ![name] = "running"]
                /\ sup_pc' = IF Len(processes') = Len(commands) THEN "wait" ELSE "start"
                /\ UNCHANGED sup_cause
           ELSE /\ sup_pc' = "finally"
                /\ sup_cause' = "start_failed"
                /\ UNCHANGED <<processes, child>>
    /\ UNCHANGED <<args, commands, signalled, reap_index, wait_expired,
                   corrVars, convVars, cfgVars, keyVars, monVars, apiVars, colVars, readVars, appVars>>

\* one pass of "while any(proc.poll() is None ...)": sleep and go round while
\* a child is alive, leave the loop when none is
WaitPass ==
    /\ sup_pc = "wait"
    /\ IF \E i \in 1..Len(processes) : Running(processes[i])
       THEN UNCHANGED <<sup_pc, sup_cause>>
       ELSE sup_pc' = "finally" /\ sup_cause' = "all_exited"
    /\ UNCHANGED <<args, commands, processes, child, signalled, reap_index, wait_expired,
                   corrVars, convVars, cfgVars, keyVars, monVars, apiVars, colVars, readVars, appVars>>

\* Ctrl+C inside the try block
KeyboardInterrupt ==
    /\ sup_pc \in {"start", "wait"}
    /\ sup_pc' = "finally"
    /\ sup_cause' = "ctrl_c"
    /\ UNCHANGED <<args, commands, processes, child, signalled, reap_index, wait_expired,
                   corrVars, convVars, cfgVars, keyVars, monVars, apiVars, colVars, readVars, appVars>>

\* a child ends by itself, or because it was sent terminate
ChildExits(c) ==
    /\ Running(c)
    /\ child' = [child EXCEPT ![c] = "exited"]
    /\ UNCHANGED <<args, commands, sup_pc, processes, signalled, sup_cause, reap_index,
                   wait_expired,
                   corrVars, convVars, cfgVars, keyVars, monVars, apiVars, colVars, readVars, appVars>>

\* finally, first loop: terminate every process whose poll() is None
TerminateAlive ==
    /\ sup_pc = "finally"
    /\ signalled' = {processes[i] : i \in {j \in 1..Len(processes) : Running(processes[j])}}
    /\ sup_pc' = "reap"
    /\ reap_index' = 1
    /\ UNCHANGED <<args, commands, processes, child, sup_cause, wait_expired,
                   corrVars, convVars, cfgVars, keyVars, monVars, apiVars, colVars, readVars, appVars>>

\* finally, second loop, one pass: wait up to 5 seconds for the process, kill
\* it when the wait times out; exits_in_time is whether a live child ends
\* within the wait
ReapProcess(exits_in_time) ==
    /\ sup_pc = "reap"
    /\ IF reap_index > Len(processes)
       THEN /\ sup_pc' = "done"
            /\ UNCHANGED <<child, reap_index, wait_expired>>
       ELSE LET name == processes[reap_index]
            IN  /\ reap_index' = reap_index + 1
                /\ UNCHANGED sup_pc
                /\ IF ~Running(name)
                   THEN UNCHANGED <<child, wait_expired>>
                   ELSE IF exits_in_time
                   THEN /\ child' = [child EXCEPT ![name] = "exited"]
                        /\ UNCHANGED wait_expired
                   ELSE /\ child' = [child EXCEPT ![name] = OnTimeoutExpired]
                        /\ wait_expired' = wait_expired \cup
                              {[name |-> name, timeout |-> WaitTimeout]}
    /\ UNCHANGED <<args, commands, processes, signalled, sup_cause,
                   corrVars, convVars, cfgVars, keyVars, monVars, apiVars, colVars, readVars, appVars>>

InitSup ==
    /\ SupIdle
    /\ ApiIdle
    /\ ColIdle
    /\ AppIdle
    /\ ReadIdle
    /\ CorrIdle
    /\ ConvIdle
    /\ CfgIdle
    /\ KeyIdle
    /\ MonIdle

NextSup ==
    \/ \E collector \in BOOLEAN, terminal_chatbot \in BOOLEAN :
          ParseArgs(collector, terminal_chatbot)
    \/ \E popen_ok \in BOOLEAN : StartProcess(popen_ok)
    \/ WaitPass
    \/ KeyboardInterrupt
    \/ \E c \in ChildNames : ChildExits(c)
    \/ TerminateAlive
    \/ \E exits_in_time \in BOOLEAN : ReapProcess(exits_in_time)

SpecSup == InitSup /\ [][NextSup]_vars

----------------------------------------------------------------------------
(* lab-manager/main.py and chatbot/tools.py: the REST API behind the chatbot *)

\* the rules registered on the "api" blueprint (url_prefix "/api"), with the
\* method and the view function of each
ApiRoutes ==
    {[method |-> "POST", rule |-> "/experiments", view |-> "api_create_experiment"],
     [method |-> "GET", rule |-> "/experiments/<id>", view |-> "api_get_experiment"],
     [method |-> "PUT", rule |-> "/experiments/<id>", view |-> "api_update_experiment"],
     [method |-> "DELETE", rule |-> "/experiments/<id>", view |-> "api_delete_experiment"],
     [method |-> "GET", rule |-> "/ground-truth", view |-> "api_list_ground_truth"],
     [method |-> "POST", rule |-> "/ground-truth", view |-> "api_create_ground_truth"],
     [method |-> "GET", rule |-> "/ground-truth/<id>", view |-> "api_get_ground_truth"],
     [method |-> "PUT", rule |-> "/ground-truth/<id>", view |-> "api_update_ground_truth"],
     [method |-> "DELETE", rule |-> "/ground-truth/<id>", view |-> "api_delete_ground_truth"]}

\* Flask's routing of a request: NotFound when no rule matches the path,
\* MethodNotAllowed when rules match the path but none has the method
Dispatch(method, rule) ==
    IF \A r \in ApiRoutes : r.rule # rule THEN "NotFound"
    ELSE IF \A r \in ApiRoutes : ~(r.rule = rule /\ r.method = method)
    THEN "MethodNotAllowed"
    ELSE (CHOOSE r \in ApiRoutes : r.rule = rule /\ r.method = method).view

\* the requests of APIClient: list_experiments, get_experiment,
\* create_experiment, delete_experiment, list_ground_truth
ClientRequests ==
    {[method |-> "GET", rule |-> "/experiments"],
     [method |-> "GET", rule |-> "/experiments/<id>"],
     [method |-> "POST", rule |-> "/experiments"],
     [method |-> "DELETE", rule |-> "/experiments/<id>"],
     [method |-> "GET", rule |-> "/ground-truth"]}

\* the server's answer to a request: the status, the JSON body (as a set) and
\* what the view function does to the tables
Serve(method, rule, id, name, ip) ==
    LET view == Dispatch(method, rule)
    IN  /\ api_request' = [method |-> method, rule |-> rule, id |-> id, name |-> name]
        /\ CASE view = "NotFound" ->
                   /\ api_response' = [status |-> 404, body |-> {}]
                   /\ UNCHANGED cfgVars
             [] view = "MethodNotAllowed" ->
                   /\ api_response' = [status |-> 405, body |-> {}]
                   /\ UNCHANGED cfgVars
             [] view = "api_create_experiment" ->
                   /\ dao_op' = [op |-> "create_plant_config", id |-> 0, name |-> name]
                   /\ IF ViolatesUnique(plant_config, name, 0)
                      THEN /\ dao_ret' = None
                           /\ api_response' = [status |-> 400, body |-> {}]
                           /\ UNCHANGED <<plant_config, plant_config_seq>>
                      ELSE /\ plant_config_seq < MaxRowId
                           /\ plant_config_seq' = plant_config_seq + 1
                           /\ plant_config' = plant_config \cup
                                 {[id |-> plant_config_seq + 1,
                                   experiment_name |-> name,
                                   ip_profinet |-> ip]}
                           /\ dao_ret' = plant_config_seq + 1
                           /\ api_response' = [status |-> 201, body |-> {plant_config_seq + 1}]
                   /\ UNCHANGED <<ground_truth_patterns, ground_truth_seq>>
             [] view = "api_get_experiment" ->
                   /\ api_response' =
                         IF \E row \in plant_config : row.id = id
                         THEN [status |-> 200, body |-> {row \in plant_config : row.id = id}]
                         ELSE [status |-> 404, body |-> {}]
                   /\ UNCHANGED cfgVars
             [] view = "api_delete_experiment" ->
                   /\ dao_op' = [op |-> "delete_plant_config", id |-> id, name |-> ""]
                   /\ plant_config' = {row \in plant_config : row.id # id}
                   /\ dao_ret' = IF \E row \in plant_config : row.id = id THEN 1 ELSE 0
                   /\ api_response' =
                         IF \E row \in plant_config : row.id = id
                         THEN [status |-> 200, body |-> {"deleted"}]
                         ELSE [status |-> 404, body |-> {}]
                   /\ UNCHANGED <<plant_config_seq, ground_truth_patterns, ground_truth_seq>>
             [] view = "api_list_ground_truth" ->
                   /\ api_response' = [status |-> 200, body |-> ground_truth_patterns]
                   /\ UNCHANGED cfgVars

\* resp.raise_for_status(): HTTPStatusError on a 4xx or 5xx response
RaisesForStatus(status) == status >= 400

\* a tool of the chatbot calls the API through APIClient._request
ApiCall(method, rule, id, name, ip) ==
    /\ [method |-> method, rule |-> rule] \in ClientRequests
    /\ Serve(method, rule, id, name, ip)
    /\ UNCHANGED <<chat_agent, corrVars, convVars, keyVars, monVars, supVars, colVars, readVars, appVars>>

\* _build_chat_agent from "client = APIClient()" on: the availability check
\* and the agent
BuildChatAgent ==
    /\ Serve("GET", "/experiments", 0, "", "")
    /\ chat_agent' = IF RaisesForStatus(api_response'.status) THEN "API indisponivel"
                     ELSE "built"
    /\ UNCHANGED <<corrVars, convVars, keyVars, monVars, supVars, colVars, readVars, appVars>>

InitApi ==
    /\ ApiIdle
    /\ SupIdle
    /\ ColIdle
    /\ AppIdle
    /\ ReadIdle
    /\ CorrIdle
    /\ ConvIdle
    /\ CfgIdle
    /\ KeyIdle
    /\ MonIdle

\* Flask is running and the database is reachable
NextApi ==
    \/ \E r \in ClientRequests, id \in 1..MaxRowId, name \in ExperimentNames,
          ip \in IpAddresses : ApiCall(r.method, r.rule, id, name, ip)
    \/ BuildChatAgent

SpecApi == InitApi /\ [][NextApi]_vars

----------------------------------------------------------------------------
(* src/db_dao.py: reading back the pulse values of one experiment *)

\* save_previous_state of the next step of experiment 1: the step indices of
\* a run are written one after the other, from 0
InsertNextStep(byte) ==
    /\ Len(dadoscoletados2) < MaxStepRows
    /\ dadoscoletados2' =
          SavePreviousState(dadoscoletados2, 1, byte, Len(dadoscoletados2), 10, 1)
    /\ UNCHANGED <<dadoscoletados_summary, plc_byte, plc_changes, mon_pc, experiment_number,
                   contador, old_bits, elapsed, save_threads, pulse_read,
                   corrVars, convVars, cfgVars, keyVars, supVars, apiVars, colVars, appVars>>

\* banco.get_pulse_values_by_experiment(1)
ReadPulseValues ==
    /\ pulse_read' = GetPulseValuesByExperiment(1)
    /\ UNCHANGED <<corrVars, convVars, cfgVars, keyVars, monVars, supVars, apiVars, colVars, appVars>>

InitPulse ==
    /\ ReadIdle
    /\ SupIdle
    /\ ApiIdle
    /\ AppIdle
    /\ ColIdle
    /\ CorrIdle
    /\ ConvIdle
    /\ CfgIdle
    /\ KeyIdle
    /\ MonIdle

NextPulse ==
    \/ \E byte \in PlcBytes : InsertNextStep(byte)
    \/ ReadPulseValues

SpecPulse == InitPulse /\ [][NextPulse]_vars

----------------------------------------------------------------------------
(* collecting_profinet.py: __main__ *)

\* num_of_inputs and num_of_outputs of the plant configs on offer
NumInputs == {2, 4, 5}
NumOutputs == {2, 4}

\* time.sleep(5)
RetryPause == 5

OnMonitorErrorGiveUp == "exited"

\* "except Exception" around monitor_plc: print, sleep, go round again
OnMonitorError == "sleep"

\* from get_plant_config to the check of len(IOs)
ChoosePlant(num_of_inputs, num_of_outputs) ==
    /\ col_pc = "config"
    /\ col_config' = [num_of_inputs |-> num_of_inputs, num_of_outputs |-> num_of_outputs]
    /\ col_IOs' = GenerateIOs(num_of_inputs, num_of_outputs)
    /\ col_pc' = IF Len(col_IOs') > 8 THEN "refused" ELSE "connect"
    /\ UNCHANGED <<col_attempts, col_failures, col_slept,
                   corrVars, convVars, cfgVars, keyVars, monVars, supVars, apiVars, readVars, appVars>>

\* connect_to_plc at the top of the while loop: a client, or None on a
\* failed connection or an exception
ConnectToPlc(connected) ==
    /\ col_pc = "connect"
    /\ col_attempts < MaxAttempts
    /\ col_attempts' = col_attempts + 1
    /\ IF connected
       THEN col_pc' = "monitor" /\ UNCHANGED col_failures
       ELSE col_pc' = "sleep" /\ col_failures' = col_failures + 1
    /\ UNCHANGED <<col_config, col_IOs, col_slept,
                   corrVars, convVars, cfgVars, keyVars, monVars, supVars, apiVars, readVars, appVars>>

\* monitor_plc raises inside its loop (plc.db_read fails)
MonitorRaises ==
    /\ col_pc = "monitor"
    /\ mon_pc[1] = "loop"
    /\ mon_pc' = [mon_pc EXCEPT ![1] = "idle"]
    /\ col_pc' = OnMonitorError
    /\ col_failures' = col_failures + 1
    /\ UNCHANGED <<col_config, col_IOs, col_attempts, col_slept,
                   dadoscoletados2, dadoscoletados_summary, plc_byte, plc_changes,
                   experiment_number, contador, old_bits, elapsed, save_threads,
                   corrVars, convVars, cfgVars, keyVars, supVars, apiVars, readVars, appVars>>

\* time.sleep(5) (and magFront.disconnect() after a failed run), then the top
\* of the while loop
Sleep ==
    /\ col_pc = "sleep"
    /\ col_slept' = col_slept + RetryPause
    /\ col_pc' = "connect"
    /\ UNCHANGED <<col_config, col_IOs, col_attempts, col_failures,
                   corrVars, convVars, cfgVars, keyVars, monVars, supVars, apiVars, readVars, appVars>>

InitCollector ==
    /\ ColIdle
    /\ SupIdle
    /\ ApiIdle
    /\ AppIdle
    /\ ReadIdle
    /\ CorrIdle
    /\ ConvIdle
    /\ CfgIdle
    /\ KeyIdle
    /\ MonIdle

\* the collector process: monitor_plc runs while the main loop is inside it
NextCollector ==
    \/ \E ni \in NumInputs, no \in NumOutputs : ChoosePlant(ni, no)
    \/ \E connected \in BOOLEAN : ConnectToPlc(connected)
    \/ (col_pc = "monitor" /\ StartRun(1))
    \/ (col_pc = "monitor" /\ \E gap \in PollGaps : Poll(1, gap))
    \/ (col_pc = "monitor" /\ InsertSummary(1))
    \/ MonitorRaises
    \/ Sleep

SpecCollector ==
    /\ InitCollector
    /\ [][NextCollector]_vars
    /\ WF_vars(Sleep)

----------------------------------------------------------------------------
(* lab-manager/main.py and chatbot/main.py: _resolve_openai_key *)

\* how a DAO call on ai_settings can go: it runs, a statement fails with a
\* database error, or get_banco returns None and mydb.cursor() raises
\* AttributeError
DbOutcomes == {"ok", "error", "down"}

\* the keys the operator may have put in OPENAI_API_KEY
EnvKeys == {<<"sk", "env">>}

\* get_ai_key_settings under a database outcome other than "down"
ReadAiKeySettings(db) == IF db = "ok" THEN GetAiKeySettings ELSE <<>>

\* settings.get("source") or "system_variable"
SourceOf(settings) == IF settings = <<>> THEN "system_variable" ELSE settings[1].source

\* os.environ.get("OPENAI_API_KEY") or chatbot_settings.openai_api_key
EnvKey == IF os_environ # NoKey THEN os_environ ELSE chatbot_settings

\* os.environ.setdefault("OPENAI_API_KEY", api_key) of _build_chat_agent
SetDefault(api_key) == IF os_environ # NoKey THEN os_environ ELSE api_key

AfterLoadNoClear(manual_key, invalid) ==
    IF manual_key # NoKey THEN "return" ELSE "raise"

\* the branch with source "manual", after load_manual_ai_key
AfterLoad(manual_key, invalid) ==
    IF manual_key # NoKey THEN "return"
    ELSE IF invalid THEN "clear"
    ELSE "raise"

AfterEnvNoFallback(env_key) ==
    IF env_key # NoKey THEN "return" ELSE "raise"

\* the branch with another source: the environment key, else the fallback
AfterEnv(env_key) ==
    IF env_key # NoKey THEN "return" ELSE "fallback"

TerminalEnvFirst(manual_key, env_key) ==
    IF env_key # NoKey THEN env_key ELSE manual_key

\* chatbot/main.py: the manual key when it was loaded, else the environment's
TerminalKey(manual_key, env_key) ==
    IF manual_key # NoKey THEN manual_key ELSE env_key

\* the resolution ends: with a key (and _build_chat_agent's setdefault), or
\* with an exception
Returned(key, path, seen, db) ==
    [resolve EXCEPT !.pc = "done", !.path = path, !.seen = seen, !.db = db,
                    !.key = key, !.last_source = last_save.source]

Raised(exception, path, seen, db) ==
    [resolve EXCEPT !.pc = "done", !.path = path, !.seen = seen, !.db = db,
                    !.raised = exception, !.last_source = last_save.source]

\* web _resolve_openai_key, lines 56-58 and the env branch: the first read
WebResolveStart(db) ==
    /\ resolve.pc \in {"idle", "done"}
    /\ LET started == [NoResolve EXCEPT !.app = "web", !.db = db]
       IN  IF db = "down"
           THEN /\ resolve' = [started EXCEPT !.pc = "done", !.raised = "AttributeError",
                                              !.last_source = last_save.source]
                /\ UNCHANGED os_environ
           ELSE LET settings == ReadAiKeySettings(db)
                    source == SourceOf(settings)
                    env_key == EnvKey
                    local == [started EXCEPT !.source = source, !.env_key = env_key,
                                             !.seen = settings]
                    next == IF source = "manual" THEN "load" ELSE AfterEnv(env_key)
                IN  IF next = "return"
                    THEN /\ resolve' = [local EXCEPT !.pc = "done", !.path = "env",
                                                     !.key = env_key,
                                                     !.last_source = last_save.source]
                         /\ os_environ' = SetDefault(env_key)
                    ELSE IF next = "raise"
                    THEN /\ resolve' = [local EXCEPT !.pc = "done", !.path = "env",
                                                     !.raised = "RuntimeError",
                                                     !.last_source = last_save.source]
                         /\ UNCHANGED os_environ
                    ELSE /\ resolve' = [local EXCEPT !.pc = next]
                         /\ UNCHANGED os_environ
    /\ UNCHANGED <<chatbot_settings, editVars, corrVars, convVars, cfgVars, keyVars, monVars,
                   supVars, apiVars, colVars, readVars>>

\* web _resolve_openai_key, lines 60-63: load_manual_ai_key reads the row again
WebLoadManual(db) ==
    /\ resolve.app = "web"
    /\ resolve.pc = "load"
    /\ IF db = "down"
       THEN /\ resolve' = Raised("AttributeError", "manual", <<>>, db)
            /\ UNCHANGED os_environ
       ELSE LET settings == ReadAiKeySettings(db)
                loaded == LoadedManualAiKey(settings)
                next == AfterLoad(loaded.key, loaded.invalid)
            IN  IF next = "return"
                THEN /\ resolve' = Returned(loaded.key, "manual", settings, db)
                     /\ os_environ' = SetDefault(loaded.key)
                ELSE IF next = "clear"
                THEN /\ resolve' = [resolve EXCEPT !.pc = "clear", !.path = "manual",
                                                   !.seen = settings, !.db = db]
                     /\ UNCHANGED os_environ
                ELSE /\ resolve' = Raised("RuntimeError", "manual", settings, db)
                     /\ UNCHANGED os_environ
    /\ UNCHANGED <<chatbot_settings, editVars, corrVars, convVars, cfgVars, keyVars, monVars,
                   supVars, apiVars, colVars, readVars>>

\* web _resolve_openai_key, lines 64-67: clear_ai_key_settings, then the raise
WebClear(db) ==
    /\ resolve.app = "web"
    /\ resolve.pc = "clear"
    /\ key_op' = [NoKeyOp EXCEPT !.op = "clear"]
    /\ key_ret' = NoKeyRet
    /\ IF db = "ok"
       THEN ai_settings' = <<>> /\ last_save' = NoSave
       ELSE UNCHANGED <<ai_settings, last_save>>
    /\ resolve' = [resolve EXCEPT !.pc = "done", !.cleared = db,
                                  !.raised = IF db = "down" THEN "AttributeError"
                                             ELSE "RuntimeError",
                                  !.last_source = last_save'.source]
    /\ UNCHANGED <<env_secret, os_environ, chatbot_settings, editVars, corrVars, convVars,
                   cfgVars, monVars, supVars, apiVars, colVars, readVars>>

\* web _resolve_openai_key, lines 72-79: get_manual_ai_key reads the row (db1),
\* load_manual_ai_key reads it again (db2)
WebFallback(db1, db2) ==
    /\ resolve.app = "web"
    /\ resolve.pc = "fallback"
    /\ IF db1 = "down" \/ db2 = "down"
       THEN /\ resolve' = Raised("AttributeError", "fallback", <<>>, "down")
            /\ UNCHANGED os_environ
       ELSE LET settings == ReadAiKeySettings(db2)
                loaded == LoadedManualAiKey(settings)
            IN  IF loaded.key # NoKey
                THEN /\ resolve' = Returned(loaded.key, "fallback", settings, db2)
                     /\ os_environ' = SetDefault(loaded.key)
                ELSE /\ resolve' = Raised("RuntimeError", "fallback", settings, db2)
                     /\ UNCHANGED os_environ
    /\ UNCHANGED <<chatbot_settings, editVars, corrVars, convVars, cfgVars, keyVars, monVars,
                   supVars, apiVars, colVars, readVars>>

\* chatbot/main.py _resolve_openai_key, in the terminal chatbot's own process,
\* whose environment is the one the operator started it with: the first read
\* (db1), load_manual_ai_key (db2), clear_ai_key_settings (db3), every
\* exception caught
TerminalResolve(db1, db2, db3) ==
    /\ resolve.pc \in {"idle", "done"}
    /\ LET started == [NoResolve EXCEPT !.app = "terminal", !.pc = "done",
                                        !.env_key = chatbot_settings]
           settings_row == IF db1 = "down" THEN <<>> ELSE ReadAiKeySettings(db1)
           is_manual == settings_row # <<>> /\ settings_row[1].source = "manual"
           settings == IF is_manual /\ db2 # "down" THEN ReadAiKeySettings(db2) ELSE <<>>
           loaded == LoadedManualAiKey(settings)
           clears == is_manual /\ loaded.key = NoKey /\ loaded.invalid
       IN  /\ IF clears
              THEN /\ key_op' = [NoKeyOp EXCEPT !.op = "clear"]
                   /\ key_ret' = NoKeyRet
                   /\ IF db3 = "ok"
                      THEN ai_settings' = <<>> /\ last_save' = NoSave
                      ELSE UNCHANGED <<ai_settings, last_save>>
              ELSE UNCHANGED <<key_op, key_ret, ai_settings, last_save>>
           /\ resolve' = [started EXCEPT
                             !.source = SourceOf(settings_row),
                             !.seen = settings,
                             !.db = IF db1 # "ok" THEN db1
                                    ELSE IF is_manual THEN db2 ELSE "ok",
                             !.path = IF loaded.key # NoKey THEN "manual" ELSE "env",
                             !.cleared = IF clears THEN db3 ELSE "",
                             !.key = TerminalKey(loaded.key, chatbot_settings),
                             !.last_source = last_save'.source]
    /\ UNCHANGED <<env_secret, os_environ, chatbot_settings, editVars, corrVars, convVars,
                   cfgVars, monVars, supVars, apiVars, colVars, readVars>>

\* a row an earlier process left under another AI_KEY_SECRET
StaleSettings == <<[source |-> "manual", encrypted_key |-> Encrypt("s2", "iv1", <<"sk", "a">>)]>>

InitResolve ==
    /\ ai_settings \in {<<>>, StaleSettings}
    /\ env_secret = "s1"
    /\ key_op = NoKeyOp
    /\ key_ret = NoKeyRet
    /\ last_save = NoSave
    /\ chatbot_settings \in EnvKeys \cup {NoKey}
    /\ os_environ = chatbot_settings
    /\ resolve = NoResolve
    /\ EditIdle
    /\ CorrIdle
    /\ ConvIdle
    /\ CfgIdle
    /\ MonIdle
    /\ SupIdle
    /\ ApiIdle
    /\ ColIdle
    /\ ReadIdle

NextResolve ==
    \/ \E source \in {"system_variable", "manual"}, raw_key \in RawKeys \cup {NoKey},
          db_ok \in BOOLEAN : SaveAiKeySettings(source, raw_key, "iv1", db_ok)
    \/ \E db \in DbOutcomes : WebResolveStart(db)
    \/ \E db \in DbOutcomes : WebLoadManual(db)
    \/ \E db \in DbOutcomes : WebClear(db)
    \/ \E db1 \in DbOutcomes, db2 \in DbOutcomes : WebFallback(db1, db2)
    \/ \E db1 \in DbOutcomes, db2 \in DbOutcomes, db3 \in DbOutcomes :
          TerminalResolve(db1, db2, db3)

SpecResolve == InitResolve /\ [][NextResolve]_vars

----------------------------------------------------------------------------
(* lab-manager/main.py: edit_config *)

\* what the form of edit_config may carry as experiment_name
FormNames == ExperimentNames \cup {""}

\* edit_config(config_id) for one request: the lookup, the validation of the
\* form, update_plant_config with its result dropped, the flash
EditConfig(config_id, method, experiment_name, ip_profinet) ==
    LET request == [NoEdit EXCEPT !.config_id = config_id, !.method = method,
                                  !.experiment_name = experiment_name]
    IN  /\ IF \A row \in plant_config : row.id # config_id
           THEN /\ edit_config' = [request EXCEPT !.flashes = <<"error">>]
                /\ UNCHANGED <<plant_config, dao_op, dao_ret>>
           ELSE IF method = "GET"
           THEN /\ edit_config' = request
                /\ UNCHANGED <<plant_config, dao_op, dao_ret>>
           ELSE IF experiment_name = ""
           THEN /\ edit_config' = [request EXCEPT !.flashes = <<"error">>]
                /\ UNCHANGED <<plant_config, dao_op, dao_ret>>
           ELSE /\ dao_op' = [op |-> "update_plant_config", id |-> config_id,
                              name |-> experiment_name]
                /\ IF ViolatesUnique(plant_config, experiment_name, config_id)
                   THEN /\ dao_ret' = 0
                        /\ UNCHANGED plant_config
                   ELSE /\ plant_config' = {row \in plant_config : row.id # config_id} \cup
                              {[id |-> config_id,
                                experiment_name |-> experiment_name,
                                ip_profinet |-> ip_profinet]}
                        /\ dao_ret' = 1
                /\ edit_config' = [request EXCEPT !.rowcount = dao_ret',
                                                  !.flashes = <<"success">>]
        /\ UNCHANGED <<plant_config_seq, ground_truth_patterns, ground_truth_seq, resVars,
                       corrVars, convVars, keyVars, monVars, supVars, apiVars, colVars,
                       readVars>>

InitEdit ==
    /\ CfgIdle
    /\ CorrIdle
    /\ ConvIdle
    /\ KeyIdle
    /\ MonIdle
    /\ ExtIdle

NextEdit ==
    \/ \E n \in ExperimentNames, ip \in IpAddresses : CreatePlantConfig(n, ip)
    \/ \E id \in 1..MaxRowId, method \in {"GET", "POST"}, n \in FormNames,
          ip \in IpAddresses : EditConfig(id, method, n, ip)

SpecEdit == InitEdit /\ [][NextEdit]_vars

----------------------------------------------------------------------------
(* Claims about the correction routine, checked under SpecCorr *)

Abs(x) == IF x < 0 THEN 0 - x ELSE x

\* the pattern lies in the observed sequence from position s on
OccursAt(pattern, sequence, s) ==
    /\ s + Len(pattern) - 1 <= Len(sequence)
    /\ \A k \in 1..Len(pattern) :
          /\ StepOk(pattern[k][1], sequence[s + k - 1][1])
          /\ TimeOk(pattern[k][2], sequence[s + k - 1][2])

\* two complete occurrences that do not overlap, wherever they start
OccursTwice(pattern, sequence) ==
    /\ Len(pattern) > 0
    /\ \E s1, s2 \in 1..Len(sequence) :
          /\ s1 + Len(pattern) <= s2
          /\ OccursAt(pattern, sequence, s1)
          /\ OccursAt(pattern, sequence, s2)

RowOk(row) == row.step_match /\ row.time_match

\* C1: the routine answers "sim" exactly when the pattern occurs completely
\* and contiguously at least twice inside the observed sequence, wherever the
\* occurrences start, and "nao" in every other case.
C1_ApprovesIffOccursTwice ==
    reply_done =>
        /\ reply.verdict \in {"sim", "nao"}
        /\ (reply.verdict = "sim") <=> OccursTwice(pattern_pairs, sequence_pairs)

\* C2: the verdict on a duration depends only on the distance between the
\* expected and the observed duration: two rows of the report whose durations
\* are equally far apart carry the same duration flag.
C2_SameDistanceSameVerdict ==
    reply_done =>
        \A i, j \in 1..Len(reply.table) :
            LET ri == reply.table[i]
                rj == reply.table[j]
            IN  (/\ ri.professor[2] # None /\ ri.aluno[2] # None
                 /\ rj.professor[2] # None /\ rj.aluno[2] # None
                 /\ Abs(ri.professor[2] - ri.aluno[2]) = Abs(rj.professor[2] - rj.aluno[2]))
                => (ri.time_match = rj.time_match)

\* C3: on a rejection of non-empty inputs the table has one row per observed
\* element up to and including the first divergent one, and no row after it.
C3_TableStopsAtFirstDivergence ==
    (reply_done /\ reply.verdict = "nao" /\ pattern_pairs # <<>> /\ sequence_pairs # <<>>) =>
        /\ \A i \in 1..Len(reply.table) : reply.table[i].aluno = sequence_pairs[i]
        /\ \A i \in 1..Len(reply.table) : ~RowOk(reply.table[i]) => i = Len(reply.table)

----------------------------------------------------------------------------
(* Claims about the encoding, checked under SpecConv *)

RECURSIVE WeightedSum(_, _)
\* sum over i of step[i] * 2^(n-i), i counted from 1
WeightedSum(step, i) ==
    IF i > Len(step) THEN 0
    ELSE (IF step[i] THEN Pow2(Len(step) - i) ELSE 0) + WeightedSum(step, i + 1)

\* C5: convert_data gives the MSB-first integer encoding: the weighted sum of
\* the bits, within 0..2^n-1, and different vectors give different values.
C5_ConvertDataIsMsbFirst ==
    conv_pc # "input" =>
        /\ exp_value = WeightedSum(e_bits, 1)
        /\ act_value = WeightedSum(a_bits, 1)
        /\ exp_value \in 0..(Pow2(Len(e_bits)) - 1)
        /\ act_value \in 0..(Pow2(Len(a_bits)) - 1)
        /\ (e_bits # a_bits) => (exp_value # act_value)

C5_Witness ==
    /\ conv_pc = "converted"
    /\ Len(e_bits) >= 2
    /\ e_bits[1] /\ ~e_bits[Len(e_bits)]
    /\ exp_value >= Pow2(Len(e_bits) - 1)
    /\ exp_value % 2 = 0
    /\ e_bits # a_bits

\* the I/O lines of the report produced for the two encoded values
ReportedIos ==
    UNION {conv_report.explain[k].diff_ios : k \in 1..Len(conv_report.explain)}

\* C4: the report names io_names[i], with its expected and observed state,
\* exactly for the indices where the expected and the observed bit differ.
C4_ExplanationInvertsEncoding ==
    conv_pc = "explained" =>
        ReportedIos = {[io |-> i - 1, exp_on |-> e_bits[i], act_on |-> a_bits[i]] :
                          i \in {j \in 1..Len(e_bits) : e_bits[j] # a_bits[j]}}

C4_Witness ==
    /\ conv_pc = "explained"
    /\ Len(e_bits) >= 2
    /\ e_bits[1] # a_bits[1]
    /\ e_bits[Len(e_bits)] = a_bits[Len(a_bits)]
    /\ \E d \in ReportedIos : d.io = 0

----------------------------------------------------------------------------
(* Claims about plant_config and ground_truth_patterns, checked under SpecCfg *)

UniqueNames(table) ==
    \A r1, r2 \in table : r1.id # r2.id => r1.experiment_name # r2.experiment_name

\* the call of this step would leave two rows with one experiment_name
WouldDuplicate ==
    \/ /\ dao_op'.op = "create_plant_config"
       /\ \E row \in plant_config : row.experiment_name = dao_op'.name
    \/ /\ dao_op'.op = "update_plant_config"
       /\ \E row \in plant_config : row.id = dao_op'.id
       /\ \E row \in plant_config : row.id # dao_op'.id /\ row.experiment_name = dao_op'.name
    \/ /\ dao_op'.op = "create_ground_truth_pattern"
       /\ \E row \in ground_truth_patterns : row.experiment_name = dao_op'.name
    \/ /\ dao_op'.op = "update_ground_truth_pattern"
       /\ \E row \in ground_truth_patterns : row.id = dao_op'.id
       /\ \E row \in ground_truth_patterns :
             row.id # dao_op'.id /\ row.experiment_name = dao_op'.name

\* C6: no two plant_config rows and no two ground_truth_patterns rows share an
\* experiment_name, and a create or update that would introduce a duplicate
\* returns None or 0 and leaves the tables as they were.
C6_ExperimentNameUnique ==
    /\ [](UniqueNames(plant_config) /\ UniqueNames(ground_truth_patterns))
    /\ [][WouldDuplicate =>
            /\ dao_ret' \in {None, 0}
            /\ UNCHANGED <<plant_config, ground_truth_patterns>>]_vars

C6_Witness ==
    /\ dao_op.op = "update_plant_config"
    /\ dao_ret = 0
    /\ \E r1, r2 \in plant_config :
          /\ r1.id = dao_op.id
          /\ r2.id # dao_op.id
          /\ r2.experiment_name = dao_op.name
          /\ r1.experiment_name # dao_op.name

----------------------------------------------------------------------------
(* Claims about the AI-key settings, checked under SpecKey *)

\* C8: ai_settings never holds more than one row, and after a save that
\* returned True it holds exactly one row, with the source just saved.
C8_AiSettingsSingleton ==
    /\ Len(ai_settings) <= 1
    /\ (key_op.op = "save" /\ key_ret.saved) =>
          (Len(ai_settings) = 1 /\ ai_settings[1].source = key_op.source)

C8_Witness ==
    /\ key_op.op = "save"
    /\ key_ret.saved
    /\ key_op.source = "system_variable"
    /\ last_save.source = "system_variable"
    /\ Len(ai_settings) = 1

\* C9: after a successful save of a manual key k the stored encrypted_key is
\* not k, and while the secret is the one of the save load_manual_ai_key
\* returns (k, False).
C9_ManualKeyRoundTrips ==
    /\ [](last_save.source = "manual" =>
            /\ Len(ai_settings) = 1
            /\ ai_settings[1].encrypted_key # last_save.raw_key)
    /\ [][(key_op'.op = "load" /\ last_save.source = "manual" /\ last_save.secret = env_secret)
            => (key_ret'.key = last_save.raw_key /\ ~key_ret'.invalid)]_vars

C9_Witness ==
    /\ key_op.op = "load"
    /\ last_save.source = "manual"
    /\ last_save.secret = env_secret
    /\ key_ret.key = last_save.raw_key
    /\ key_ret.key # NoKey

----------------------------------------------------------------------------
(* Claims about the collected rows, checked under SpecMon and SpecRuns *)

\* C7: collected rows are append-only: a step only adds rows to dadoscoletados2
\* and every row that exists stays as it is.
C7_CollectedRowsAppendOnly ==
    [][/\ Len(dadoscoletados2') >= Len(dadoscoletados2)
       /\ \A i \in 1..Len(dadoscoletados2) : dadoscoletados2'[i] = dadoscoletados2[i]]_vars

C7_Witness ==
    /\ Len(dadoscoletados2) >= 3
    /\ \E i, j \in 1..Len(dadoscoletados2) :
          /\ i < j
          /\ dadoscoletados2[i].writer # 0
          /\ dadoscoletados2[j].writer = dadoscoletados2[i].writer
          /\ dadoscoletados2[j].experiment_id = dadoscoletados2[i].experiment_id
    /\ \E i \in 1..Len(dadoscoletados2) :
          dadoscoletados2[i].writer = 0 /\ dadoscoletados2[i].duration = None

\* C10: all rows written by one monitor_plc run carry one experiment_id, and
\* two runs, one after the other or overlapping, write under different ones.
C10_RunsWriteUnderOwnExperimentId ==
    /\ \A i, j \in 1..Len(dadoscoletados2) :
          (dadoscoletados2[i].writer # 0 /\ dadoscoletados2[i].writer = dadoscoletados2[j].writer)
              => dadoscoletados2[i].experiment_id = dadoscoletados2[j].experiment_id
    /\ \A i, j \in 1..Len(dadoscoletados2) :
          (/\ dadoscoletados2[i].writer # 0
           /\ dadoscoletados2[j].writer # 0
           /\ dadoscoletados2[i].writer # dadoscoletados2[j].writer)
              => dadoscoletados2[i].experiment_id # dadoscoletados2[j].experiment_id

----------------------------------------------------------------------------
(* Claims about the supervisor, checked under SpecSup *)

IsPrefix(a, b) == Len(a) <= Len(b) /\ \A i \in 1..Len(a) : a[i] = b[i]

\* the children and their order the two flags stand for
ExpectedChildren ==
    IF args.collector /\ args.terminal_chatbot
    THEN <<"collecting_profinet", "lab-manager", "chatbot">>
    ELSE IF args.collector THEN <<"collecting_profinet", "lab-manager">>
    ELSE IF args.terminal_chatbot THEN <<"lab-manager", "chatbot">>
    ELSE <<"lab-manager">>

\* C11: the children are started in the order the flags alone determine:
\* the collector (with --collector) before Flask, Flask always, the terminal
\* chatbot (with --terminal-chatbot) after Flask, and nothing else; once the
\* wait loop is reached all of them have been started.
C11_ChildrenDeterminedByFlags ==
    sup_pc # "parse" =>
        /\ IsPrefix(processes, ExpectedChildren)
        /\ {c \in ChildNames : child[c] # "unstarted"} =
              {processes[i] : i \in 1..Len(processes)}
        /\ (sup_pc = "wait" \/ sup_cause \in {"all_exited"}) => processes = ExpectedChildren

C11_Witness ==
    /\ sup_pc = "wait"
    /\ args.collector
    /\ args.terminal_chatbot
    /\ processes = <<"collecting_profinet", "lab-manager", "chatbot">>
    /\ \A c \in ChildNames : child[c] = "running"

----------------------------------------------------------------------------
(* Claims about the REST API, checked under SpecApi *)

\* C13: with Flask running and the database reachable, the request of
\* APIClient.list_experiments (GET /experiments) is answered successfully
\* with the registered experiments, and _build_chat_agent does not report the
\* API as unavailable.
C13_ListExperimentsIsServed ==
    /\ (api_request.method = "GET" /\ api_request.rule = "/experiments") =>
          (api_response.status = 200 /\ api_response.body = plant_config)
    /\ chat_agent # "API indisponivel"

----------------------------------------------------------------------------
(* Claims about a monitor_plc run, checked under SpecMon and SpecTimeout *)

\* C14: the save started when a change of bits is detected carries the bit
\* vector of the state that just ended (old_bits), under that state's step
\* index, not the bits of the state that replaced it.
C14_RowCarriesEndedState ==
    [][\A th \in save_threads' \ save_threads :
          /\ GetStepList(th.byte, Len(IOs)) = old_bits[th.run]
          /\ th.cont = contador[th.run] - 1]_vars

\* the step indices of the saves run r has issued: rows written and saves
\* still in their thread
IssuedSteps(r) ==
    {dadoscoletados2[i].step : i \in {j \in 1..Len(dadoscoletados2) :
                                         dadoscoletados2[j].writer = r}}
        \cup {th.cont : th \in {t \in save_threads : t.run = r}}

IssuedSaves(r) ==
    Len(SelectSeq(dadoscoletados2, LAMBDA row : row.writer = r))
        + Cardinality({t \in save_threads : t.run = r})

\* C15: a run that has observed m+1 successive distinct states (contador =
\* m+1) has issued one save per state that ended, with step indices 0..m-1,
\* and after the timeout exactly m+1 saves with step indices 0..m, none
\* missing and none twice.
C15_OneSavePerState ==
    /\ (mon_pc[1] = "loop" /\ contador[1] >= 1) =>
          /\ IssuedSteps(1) = 0..(contador[1] - 2)
          /\ IssuedSaves(1) = contador[1] - 1
    /\ mon_pc[1] \in {"summary", "exited"} =>
          /\ IssuedSteps(1) = 0..(contador[1] - 1)
          /\ IssuedSaves(1) = contador[1]

C15_Witness ==
    /\ mon_pc[1] = "exited"
    /\ contador[1] = 3
    /\ save_threads = {}
    /\ IssuedSteps(1) = {0, 1, 2}
    /\ IssuedSaves(1) = 3

\* C16: the polling loop ends only in a pass that sees no change of bits and
\* more than 30 seconds since the last observed change, it never goes on past
\* such a pass, and once the observed bits stop changing a running loop ends.
C16_LoopEndsAfterQuietLimit ==
    /\ [][(mon_pc[1] = "loop" /\ mon_pc'[1] # "loop") =>
             (elapsed'[1] > 30 /\ old_bits'[1] = old_bits[1])]_vars
    /\ [](mon_pc[1] = "loop" => elapsed[1] <= 30)
    /\ (mon_pc[1] = "loop") ~> (mon_pc[1] = "summary")

C16_Witness ==
    /\ mon_pc[1] = "summary"
    /\ elapsed[1] = 40
    /\ contador[1] = 3
    /\ plc_changes = 2

\* C17: the pulse values are read back for the summary only when every save
\* the run started in its loop is in the database: no save thread of the run
\* is still pending at that moment.
C17_SummaryAfterAllSaves ==
    [][\A r \in Runs :
          (mon_pc[r] = "summary" /\ mon_pc'[r] = "exited") =>
             \A th \in save_threads : th.run # r]_vars

----------------------------------------------------------------------------
(* Claims about get_pulse_values_by_experiment, checked under SpecPulse *)

\* rows before row i in increasing numeric order of the step index
RankByNumericStep(rows, i) ==
    Cardinality({j \in 1..Len(rows) :
        \/ rows[j].step < rows[i].step
        \/ (rows[j].step = rows[i].step /\ j < i)})

PulseValuesByNumericStep(experiment_id) ==
    LET rows == SelectSeq(dadoscoletados2, LAMBDA row : row.experiment_id = experiment_id)
    IN  [k \in 1..Len(rows) |->
            rows[CHOOSE i \in 1..Len(rows) : RankByNumericStep(rows, i) = k - 1].pulse_value]

\* C18: a read of the pulse values of an experiment returns them in increasing
\* numeric order of the step index (0, 1, 2, ..., 9, 10, ...), however many
\* rows the experiment has.
C18_PulseValuesInNumericOrder ==
    [][(dadoscoletados2' = dadoscoletados2) =>
          pulse_read' = PulseValuesByNumericStep(1)]_vars

----------------------------------------------------------------------------
(* Claims about the collector's main program, checked under SpecCollector *)

\* C19: with num_of_inputs + num_of_outputs greater than 8 the collector
\* exits before any connection attempt, and otherwise its IOs list and the
\* bit vector it samples have exactly num_of_inputs + num_of_outputs entries.
C19_RefusesMoreThanEightIOs ==
    col_pc # "config" =>
        LET n == col_config.num_of_inputs + col_config.num_of_outputs
        IN  /\ n > 8 => (col_pc = "refused" /\ col_attempts = 0)
            /\ n <= 8 =>
                  /\ Len(col_IOs) = n
                  /\ old_bits[1] # <<>> => Len(old_bits[1]) = n

\* C20: every failed connection and every failed run is followed by a pause
\* of 5 seconds and then the top of the loop, where the next connection is
\* attempted; the main loop is never left; and once a run has reached its
\* timeout the process ends inside monitor_plc, with no further attempt.
C20_RetriesUntilRunCompletes ==
    /\ [][((col_pc = "connect" /\ col_pc' \notin {"connect", "monitor"})
             \/ (col_pc = "monitor" /\ col_pc' # "monitor")) => col_pc' = "sleep"]_vars
    /\ [][col_pc = "sleep" => col_pc' \in {"sleep", "connect"}]_vars
    /\ [](col_pc = "connect" => col_slept = 5 * col_failures)
    /\ (col_pc = "sleep") ~> (col_pc = "connect")
    /\ [](mon_pc[1] \in {"summary", "exited"} => col_pc = "monitor")
    /\ [][mon_pc[1] = "exited" => UNCHANGED <<mon_pc, col_pc, col_attempts>>]_vars

C20_Witness ==
    /\ mon_pc[1] = "exited"
    /\ col_attempts = 3
    /\ col_failures = 2
    /\ col_slept = 10
    /\ Len(dadoscoletados_summary) = 1

----------------------------------------------------------------------------
(* Claims about the correction routine, checked under SpecCorrSmall *)

\* the sequence with another last element
WithLast(sequence, last) == SubSeq(sequence, 1, Len(sequence) - 1) \o <<last>>

\* C21: for a sequence of more than one element the reply is the same
\* whatever the last element is, the table of a rejection has the elements
\* before the last one and no other, and the occurrences fit in them; a
\* sequence of one element is compared as it is.
C21_LastElementNotCompared ==
    reply_done =>
        /\ Len(sequence_pairs) > 1 =>
              /\ \A last \in SmallPairs :
                    FormatCorrectionOutput(pattern_pairs, WithLast(sequence_pairs, last),
                                           io_count) = reply
              /\ (reply.verdict = "nao" /\ pattern_pairs # <<>>) =>
                    /\ Len(reply.table) = Len(sequence_pairs) - 1
                    /\ \A i \in 1..Len(reply.table) : reply.table[i].aluno = sequence_pairs[i]
              /\ pattern_pairs # <<>> =>
                    reply.occurrences * Len(pattern_pairs) <= Len(sequence_pairs) - 1
        /\ (Len(sequence_pairs) = 1 /\ pattern_pairs # <<>>) =>
              /\ Len(reply.table) = 1
              /\ reply.table[1].aluno = sequence_pairs[1]

C21_Witness ==
    /\ reply_done
    /\ reply.verdict = "sim"
    /\ reply.occurrences = 2
    /\ Len(pattern_pairs) = 1
    /\ Len(sequence_pairs) = 3
    /\ sequence_pairs[3][1] # pattern_pairs[1][1]
    /\ sequence_pairs[3][2] # pattern_pairs[1][2]

\* C22: an empty pattern or an empty observed sequence is answered "nao" with
\* 0 occurrences, a reason that names exactly what is empty, and no table and
\* no explanation; non-empty inputs get no such reason.
C22_EmptyInputsRejectedWithReason ==
    reply_done =>
        /\ (pattern_pairs = <<>> \/ sequence_pairs = <<>>) =>
              /\ reply.verdict = "nao"
              /\ reply.occurrences = 0
              /\ reply.table = <<>>
              /\ reply.explain = <<>>
              /\ reply.reason =
                    IF pattern_pairs = <<>> /\ sequence_pairs = <<>>
                    THEN <<"Padrao vazio", "Sequencia vazia">>
                    ELSE IF pattern_pairs = <<>> THEN <<"Padrao vazio">>
                    ELSE <<"Sequencia vazia">>
        /\ (pattern_pairs # <<>> /\ sequence_pairs # <<>>) => reply.reason = <<>>

C22_Witness ==
    /\ reply_done
    /\ pattern_pairs # <<>>
    /\ sequence_pairs = <<>>
    /\ reply.reason = <<"Sequencia vazia">>

\* C23: a rejection of a non-empty pattern and a non-empty sequence has at
\* least one table row with a failed value or duration flag, and an
\* explanation for it.
C23_RejectionShowsDivergence ==
    (reply_done /\ reply.verdict = "nao" /\ pattern_pairs # <<>> /\ sequence_pairs # <<>>) =>
        /\ \E i \in 1..Len(reply.table) : ~RowOk(reply.table[i])
        /\ Len(reply.explain) >= 1

----------------------------------------------------------------------------
(* Claims about the resolution of the OpenAI key, checked under SpecResolve *)

\* the web resolution finished without the database connection failing
WebResolved == resolve.app = "web" /\ resolve.pc = "done" /\ resolve.raised # "AttributeError"

C26_TerminalPrefersManualKey ==
    (resolve.app = "terminal" /\ resolve.pc = "done") =>
        LET loaded == LoadedManualAiKey(resolve.seen)
        IN  /\ resolve.raised = ""
            /\ IF resolve.db = "ok" /\ loaded.key # NoKey
               THEN resolve.key = loaded.key
               ELSE resolve.key = chatbot_settings

C26_Witness ==
    /\ resolve.app = "terminal"
    /\ resolve.pc = "done"
    /\ chatbot_settings # NoKey
    /\ resolve.key \in RawKeys

\* C27: a web resolution that ends while the last successful save is one of
\* source "system_variable" returns the key the operator put in the
\* environment, or none.
C27_SystemVariableRetiresManualKey ==
    (resolve.app = "web" /\ resolve.pc = "done" /\ resolve.last_source = "system_variable") =>
        resolve.key \in {NoKey, chatbot_settings}

----------------------------------------------------------------------------
(* Claims about the edit form, checked under SpecEdit *)

\* C28: a request to edit_config flashes the success message only when
\* update_plant_config reported a changed row.
C28_SuccessOnlyForAppliedChange ==
    edit_config.flashes = <<"success">> => edit_config.rowcount = 1

====
